---- MODULE Spec2Model ----
\* Forum backend: threads, posts, likes, soft deletion and the denormalized
\* counters kept on Category, Thread and User documents.
\*
\* Every route handler is an async function whose suspension points are its
\* awaited store calls.  A handler is modelled as a sequence of actions, one per
\* awaited store call; the synchronous code before and after a store call
\* (validation, authorization test, response) belongs to the action of that call.
\* Handlers of different requests interleave at these points.
\*
\* Store semantics (Mongoose over MongoDB), as used by the handlers:
\*   - Model.findOne / findById read one document.
\*   - Model.findByIdAndUpdate(id, {$inc ..}) is an atomic single-document update.
\*   - doc.save() of a new document inserts it; doc.save() of a loaded document
\*     writes only the paths the handler modified: a scalar assignment is a $set
\*     of that path, array.push(x) is an atomic $push applied to the stored
\*     array (it increments the version key __v without testing it), and the
\*     assignment of a whole array is a $set of the array that is guarded by the
\*     version key read with the document (a mismatch raises VersionError, which
\*     the handler's catch turns into a 500) and increments it.
EXTENDS Integers, Sequences, FiniteSets, TLC

\* ---------------------------------------------------------------- bounds
MaxThreads == 2
MaxPosts == 2
MaxOps == 2
MaxSeqOps == 3
MaxFailOps == 2
MaxAdminOps == 2
MaxHistOps == 3
TrailLen == 3
MaxInFlight == 2
MaxListOps == 2
MaxPage == 2
MaxLimit == 2
MaxTotal == 6
MaxViewOps == 4
MaxLikeOps == 3

\* ---------------------------------------------------------------- domains
Users == {"alice", "bob", "root"}
\* the User collection also holds a deactivated account, which sends no request
Deactivated == {"carol"}
Accounts == Users \cup Deactivated
CategoryIds == {"general", "help", "news"}
ThreadIds == 1..MaxThreads
PostIds == 1..MaxPosts
ReqIds == 1..MaxInFlight
None == "none"
NoThread == 0
NoPost == 0
Contents == {"v1", "v2"}
Seeds == {"empty", "locked", "reply"}

\* req.user.role, resolved by the authentication middleware
Role(u) == IF u = "root" THEN "admin" ELSE "user"

VARIABLES
  categories,   \* Category collection: id -> document
  users,        \* User collection: id -> document
  threads,      \* Thread collection: id -> document (exists = FALSE: no such id)
  posts,        \* Post collection: id -> document (exists = FALSE: no such id)
  reqs,         \* request slots: the position and locals of each handler in flight
  started,      \* number of requests accepted so far
  response,     \* the response sent last: HTTP status and message of the envelope
  postDecs,     \* history: decrements applied on behalf of each post's deletion
  threadDecs,   \* history: threadCount decrements applied for each thread's deletion
  reads,        \* history: detail reads answered 200 for each thread
  trail,        \* history: the latest requests, each with the store it arrived at
  listing,      \* the list response sent last: items, populated references, pagination
  pageCase      \* a pagination computation: route, page, limit, total and its result

store == <<categories, users, threads, posts>>
hist == <<postDecs, threadDecs, reads>>
vars == <<categories, users, threads, posts, reqs, started, response,
         postDecs, threadDecs, reads, trail, listing, pageCase>>

\* ---------------------------------------------------------------- documents
\* categorySchema defaults (exists = FALSE: no such id)
NoCategoryDoc ==
  [exists |-> FALSE, name |-> None, isActive |-> FALSE,
   threadCount |-> 0, postCount |-> 0]

NewCategory(name) ==
  [exists |-> TRUE, name |-> name, isActive |-> TRUE,
   threadCount |-> 0, postCount |-> 0]

\* User document: the counter the routes maintain
NewUser == [postCount |-> 0, isActive |-> TRUE]

\* threadSchema defaults
NoThreadDoc ==
  [exists |-> FALSE, author |-> None, category |-> None, content |-> None,
   isActive |-> FALSE, isLocked |-> FALSE, views |-> 0, replyCount |-> 0,
   lastReply |-> None, likes |-> <<>>, v |-> 0]

NewThread(author, category, content) ==
  [exists |-> TRUE, author |-> author, category |-> category, content |-> content,
   isActive |-> TRUE, isLocked |-> FALSE, views |-> 0, replyCount |-> 0,
   lastReply |-> None, likes |-> <<>>, v |-> 0]

\* postSchema defaults
NoPostDoc ==
  [exists |-> FALSE, author |-> None, thread |-> NoThread, parentPost |-> NoPost,
   content |-> None, isActive |-> FALSE, likes |-> <<>>, isEdited |-> FALSE,
   editHistory |-> <<>>, v |-> 0]

NewPost(author, thread, parent, content) ==
  [exists |-> TRUE, author |-> author, thread |-> thread, parentPost |-> parent,
   content |-> content, isActive |-> TRUE, likes |-> <<>>, isEdited |-> FALSE,
   editHistory |-> <<>>, v |-> 0]

\* ---------------------------------------------------------------- requests
\* committed: the handler's primary write (the save of the new document or of
\* isActive = false) has been applied.
\* the documents populate() resolved inside the documents of a list response
NoRefs == [users |-> {}, categories |-> {}, threads |-> {}, posts |-> {}]

IdleReq ==
  [pc |-> "idle", op |-> None, actor |-> None, tid |-> NoThread, pid |-> NoPost,
   cid |-> None, parent |-> NoPost, owner |-> None, content |-> None,
   seenLikes |-> <<>>, seenV |-> 0, seenContent |-> None,
   committed |-> FALSE,
   page |-> 0, limit |-> 0, query |-> None, found |-> <<>>, populated |-> NoRefs]

InFlight == {r \in ReqIds : reqs[r].pc # "idle"}
Quiescent == InFlight = {}

\* A new request takes the lowest free slot (slots are interchangeable).
CanStart(r) ==
  /\ reqs[r].pc = "idle"
  /\ \A q \in ReqIds : q < r => reqs[q].pc # "idle"

\* res.status(code).json(...) and return: the handler ends
Respond(r, code, msg) ==
  /\ reqs' = [reqs EXCEPT ![r] = IdleReq]
  /\ response' = [status |-> code, message |-> msg]

\* A handler that ends in its first action
Reject(r, code, msg) ==
  /\ Respond(r, code, msg)
  /\ started' = started + 1
  /\ UNCHANGED <<store, hist>>

\* like => like.user.toString() === req.user._id.toString()
HasLike(likes, u) == \E i \in 1..Len(likes) : likes[i] = u

\* likes.filter(like => like.user.toString() !== req.user._id.toString())
RECURSIVE Without(_, _)
Without(likes, u) ==
  IF likes = <<>> THEN <<>>
  ELSE IF Head(likes) = u THEN Without(Tail(likes), u)
       ELSE <<Head(likes)>> \o Without(Tail(likes), u)

\* variant: the authorization test is missing
IsAuthorOrAdmin_Anyone(author, actor) == TRUE

\* author or admin: the negation of the 403 test of the delete and thread-update routes
IsAuthorOrAdmin(author, actor) == author = actor \/ Role(actor) = "admin"

\* variant: the post-update route also admits an admin
IsAuthor_OrAdmin(author, actor) == author = actor \/ Role(actor) = "admin"

\* author only: the negation of the 403 test of the post-update route
IsAuthor(author, actor) == author = actor

\* ---------------------------------------------------------------- initial states
SeedThreads(seed) ==
  [t \in ThreadIds |->
     IF t = 1 /\ seed = "locked"
       THEN [NewThread("alice", "general", "v1") EXCEPT !.isLocked = TRUE]
     ELSE IF t = 1 /\ seed = "reply"
       THEN [NewThread("alice", "general", "v1") EXCEPT
               !.replyCount = 1, !.lastReply = "bob"]
     ELSE NoThreadDoc]

SeedPosts(seed) ==
  [p \in PostIds |->
     IF p = 1 /\ seed = "reply" THEN NewPost("bob", 1, NoPost, "v1") ELSE NoPostDoc]

SeedCategories(seed) ==
  [c \in CategoryIds |->
     IF c = "general" /\ seed # "empty"
       THEN [NewCategory("General") EXCEPT
               !.threadCount = 1, !.postCount = IF seed = "reply" THEN 1 ELSE 0]
     ELSE IF c = "general" THEN NewCategory("General")
     ELSE IF c = "help" THEN NewCategory("Help")
     ELSE NoCategoryDoc]

SeedUsers(seed) ==
  [u \in Accounts |->
     IF u = "alice" /\ seed # "empty" THEN [NewUser EXCEPT !.postCount = 1]
     ELSE IF u = "bob" /\ seed = "reply" THEN [NewUser EXCEPT !.postCount = 1]
     ELSE IF u \in Deactivated THEN [NewUser EXCEPT !.isActive = FALSE]
     ELSE NewUser]

\* no list response sent yet, no pagination computed
NoPagination ==
  [present |-> FALSE, currentPage |-> 0, totalPages |-> 0, total |-> 0,
   hasNext |-> FALSE, hasPrev |-> FALSE]
NoListing ==
  [route |-> None, seq |-> 0, items |-> <<>>, populated |-> NoRefs,
   pagination |-> NoPagination]
NoPageCase ==
  [route |-> None, page |-> 0, limit |-> 0, total |-> 0, applied |-> FALSE,
   out |-> NoPagination]

Init ==
  \E seed \in Seeds :
    /\ categories = SeedCategories(seed)
    /\ users = SeedUsers(seed)
    /\ threads = SeedThreads(seed)
    /\ posts = SeedPosts(seed)
    /\ reqs = [r \in ReqIds |-> IdleReq]
    /\ response = [status |-> 0, message |-> None]
    /\ started = 0
    /\ postDecs = [p \in PostIds |-> [reply |-> 0, user |-> 0, cat |-> 0]]
    /\ threadDecs = [t \in ThreadIds |-> 0]
    /\ reads = [t \in ThreadIds |-> 0]
    /\ trail = <<>>
    /\ listing = NoListing
    /\ pageCase = NoPageCase

\* ---------------------------------------------------------------- threads routes
Empty == ""
Titles == {"t"}
GhostCategory == "ghost"

ExistingThreads == {t \in ThreadIds : threads[t].exists}
ExistingPosts == {p \in PostIds : posts[p].exists}

\* the _id the store gives the next inserted Thread
NextThreadId == CHOOSE t \in ThreadIds \ ExistingThreads :
                  \A x \in ThreadIds \ ExistingThreads : t <= x

\* the _id the store gives the next inserted Post
NextPostId == CHOOSE p \in PostIds \ ExistingPosts :
                \A x \in PostIds \ ExistingPosts : p <= x

\* variant: the lookup leaves out isActive: true
FindActiveThread_AnyState(t) == t \in ThreadIds /\ threads[t].exists

\* Thread.findOne({ _id, isActive: true })
FindActiveThread(t) == t \in ThreadIds /\ threads[t].exists /\ threads[t].isActive

\* Category.findOne({ _id, isActive: true })
FindActiveCategory(c) ==
  c \in CategoryIds /\ categories[c].exists /\ categories[c].isActive

\* room for one more Thread document within the bound
ThreadRoom ==
  Cardinality(ExistingThreads)
    + Cardinality({q \in ReqIds : reqs[q].pc = "ct_save"}) < MaxThreads

\* variant: the detail read is a plain findOne without the $inc
GetThread_ReadOnly(r, actor, t) ==
  /\ CanStart(r)
  /\ IF ~FindActiveThread(t)
       THEN Reject(r, 404, "Thread not found")
     ELSE /\ reads' = [reads EXCEPT ![t] = @ + 1]
          /\ Respond(r, 200, None)
          /\ started' = started + 1
          /\ UNCHANGED <<store, postDecs, threadDecs>>

\* GET /threads/:id: Thread.findOneAndUpdate({_id, isActive: true},
\* {$inc: {views: 1}}, {new: true}), one atomic update, and the response
GetThread(r, actor, t) ==
  /\ CanStart(r)
  /\ IF ~FindActiveThread(t)
       THEN Reject(r, 404, "Thread not found")
     ELSE /\ threads' = [threads EXCEPT ![t].views = @ + 1]
          /\ reads' = [reads EXCEPT ![t] = @ + 1]
          /\ Respond(r, 200, None)
          /\ started' = started + 1
          /\ UNCHANGED <<categories, users, posts, postDecs, threadDecs>>

\* POST /threads: validation and Category.findOne
CreateThread_Find(r, actor, title, content, category) ==
  /\ CanStart(r)
  /\ IF title = Empty \/ content = Empty \/ category = Empty
       THEN Reject(r, 400, "Title, content, and category are required")
     ELSE IF ~FindActiveCategory(category)
       THEN Reject(r, 400, "Invalid category")
     ELSE /\ ThreadRoom
          /\ reqs' = [reqs EXCEPT ![r] = [IdleReq EXCEPT
                        !.pc = "ct_save", !.op = "createThread", !.actor = actor,
                        !.cid = category, !.content = content]]
          /\ started' = started + 1
          /\ UNCHANGED <<store, hist, response>>

\* POST /threads: await thread.save()
CreateThread_Save(r) ==
  /\ reqs[r].pc = "ct_save"
  /\ LET t == NextThreadId IN
       /\ threads' = [threads EXCEPT
                        ![t] = NewThread(reqs[r].actor, reqs[r].cid, reqs[r].content)]
       /\ reqs' = [reqs EXCEPT ![r].pc = "ct_incCategory", ![r].tid = t,
                               ![r].committed = TRUE]
  /\ UNCHANGED <<categories, users, posts, started, response, hist>>

\* variant: the increment hits postCount instead of threadCount
CreateThread_IncCategory_WrongField(r) ==
  /\ reqs[r].pc = "ct_incCategory"
  /\ categories' = [categories EXCEPT ![reqs[r].cid].postCount = @ + 1]
  /\ reqs' = [reqs EXCEPT ![r].pc = "ct_incUser"]
  /\ UNCHANGED <<users, threads, posts, started, response, hist>>

\* POST /threads: Category.findByIdAndUpdate(category, {$inc: {threadCount: 1}})
CreateThread_IncCategory(r) ==
  /\ reqs[r].pc = "ct_incCategory"
  /\ categories' = [categories EXCEPT ![reqs[r].cid].threadCount = @ + 1]
  /\ reqs' = [reqs EXCEPT ![r].pc = "ct_incUser"]
  /\ UNCHANGED <<users, threads, posts, started, response, hist>>

\* POST /threads: User.findByIdAndUpdate(req.user._id, {$inc: {postCount: 1}})
CreateThread_IncUser(r) ==
  /\ reqs[r].pc = "ct_incUser"
  /\ users' = [users EXCEPT ![reqs[r].actor].postCount = @ + 1]
  /\ reqs' = [reqs EXCEPT ![r].pc = "ct_populate"]
  /\ UNCHANGED <<categories, threads, posts, started, response, hist>>

\* POST /threads: Thread.findById(thread._id).populate(..) and the 201 response
CreateThread_Populate(r) ==
  /\ reqs[r].pc = "ct_populate"
  /\ Respond(r, 201, "Thread created successfully")
  /\ UNCHANGED <<store, started, hist>>

\* DELETE /threads/:id: Thread.findOne and the author-or-admin test
DeleteThread_Find(r, actor, t) ==
  /\ CanStart(r)
  /\ IF ~FindActiveThread(t)
       THEN Reject(r, 404, "Thread not found")
     ELSE IF ~IsAuthorOrAdmin(threads[t].author, actor)
       THEN Reject(r, 403, "Not authorized to delete this thread")
     ELSE /\ reqs' = [reqs EXCEPT ![r] = [IdleReq EXCEPT
                        !.pc = "dt_save", !.op = "deleteThread", !.actor = actor,
                        !.tid = t, !.cid = threads[t].category]]
          /\ started' = started + 1
          /\ UNCHANGED <<store, hist, response>>

\* variant: the delete cascades to the posts under the thread
DeleteThread_Save_Cascade(r) ==
  /\ reqs[r].pc = "dt_save"
  /\ threads' = [threads EXCEPT ![reqs[r].tid].isActive = FALSE]
  /\ posts' = [p \in PostIds |->
                 IF posts[p].exists /\ posts[p].thread = reqs[r].tid
                   THEN [posts[p] EXCEPT !.isActive = FALSE] ELSE posts[p]]
  /\ reqs' = [reqs EXCEPT ![r].pc = "dt_decCategory", ![r].committed = TRUE]
  /\ UNCHANGED <<categories, users, started, response, hist>>

\* DELETE /threads/:id: thread.isActive = false; await thread.save()
DeleteThread_Save(r) ==
  /\ reqs[r].pc = "dt_save"
  /\ threads' = [threads EXCEPT ![reqs[r].tid].isActive = FALSE]
  /\ reqs' = [reqs EXCEPT ![r].pc = "dt_decCategory", ![r].committed = TRUE]
  /\ UNCHANGED <<categories, users, posts, started, response, hist>>

\* DELETE /threads/:id: Category.findByIdAndUpdate(.., {$inc: {threadCount: -1}})
DeleteThread_DecCategory(r) ==
  /\ reqs[r].pc = "dt_decCategory"
  /\ categories' = [categories EXCEPT ![reqs[r].cid].threadCount = @ - 1]
  /\ threadDecs' = [threadDecs EXCEPT ![reqs[r].tid] = @ + 1]
  /\ Respond(r, 200, "Thread deleted successfully")
  /\ UNCHANGED <<users, threads, posts, started, postDecs, reads>>

\* PUT /threads/:id: Thread.findOne and the author-or-admin test
UpdateThread_Find(r, actor, t, content) ==
  /\ CanStart(r)
  /\ IF ~FindActiveThread(t)
       THEN Reject(r, 404, "Thread not found")
     ELSE IF ~IsAuthorOrAdmin(threads[t].author, actor)
       THEN Reject(r, 403, "Not authorized to edit this thread")
     ELSE /\ reqs' = [reqs EXCEPT ![r] = [IdleReq EXCEPT
                        !.pc = "ut_save", !.op = "updateThread", !.actor = actor,
                        !.tid = t, !.content = content]]
          /\ started' = started + 1
          /\ UNCHANGED <<store, hist, response>>

\* PUT /threads/:id: if (content) thread.content = content; await thread.save()
UpdateThread_Save(r) ==
  /\ reqs[r].pc = "ut_save"
  /\ threads' = [threads EXCEPT ![reqs[r].tid].content =
                   IF reqs[r].content # Empty THEN reqs[r].content ELSE @]
  /\ reqs' = [reqs EXCEPT ![r].pc = "ut_populate"]
  /\ UNCHANGED <<categories, users, posts, started, response, hist>>

\* PUT /threads/:id: Thread.findById(..).populate(..) and the 200 response
UpdateThread_Populate(r) ==
  /\ reqs[r].pc = "ut_populate"
  /\ Respond(r, 200, "Thread updated successfully")
  /\ UNCHANGED <<store, started, hist>>

\* variant: the toggle never removes a like
ToggleWrite_AlwaysPush(doc, seenLikes, u) ==
  [doc EXCEPT !.likes = Append(@, u), !.v = @ + 1]

\* the likes array and version key with which save() of a toggle leaves the
\* document: an unlike is a $set of the filtered array read by the handler, a
\* like is a $push onto the stored array
ToggleWrite(doc, seenLikes, u) ==
  IF HasLike(seenLikes, u)
    THEN [doc EXCEPT !.likes = Without(seenLikes, u), !.v = @ + 1]
    ELSE [doc EXCEPT !.likes = Append(@, u), !.v = @ + 1]

\* save() of a toggle raises VersionError: the unlike's $set of the array
\* matches only the version key that was read
ToggleConflict(doc, seenLikes, seenV, u) == HasLike(seenLikes, u) /\ doc.v # seenV

\* POST /threads/:id/like: Thread.findOne
LikeThread_Find(r, actor, t) ==
  /\ CanStart(r)
  /\ IF ~FindActiveThread(t)
       THEN Reject(r, 404, "Thread not found")
     ELSE /\ reqs' = [reqs EXCEPT ![r] = [IdleReq EXCEPT
                        !.pc = "lt_save", !.op = "likeThread", !.actor = actor,
                        !.tid = t, !.seenLikes = threads[t].likes,
                        !.seenV = threads[t].v]]
          /\ started' = started + 1
          /\ UNCHANGED <<store, hist, response>>

\* POST /threads/:id/like: the toggle of thread.likes and await thread.save()
LikeThread_Save(r) ==
  /\ reqs[r].pc = "lt_save"
  /\ LET t == reqs[r].tid IN
       IF ToggleConflict(threads[t], reqs[r].seenLikes, reqs[r].seenV, reqs[r].actor)
         THEN /\ Respond(r, 500, "Server error")
              /\ UNCHANGED threads
         ELSE /\ threads' = [threads EXCEPT ![t] =
                   ToggleWrite(@, reqs[r].seenLikes, reqs[r].actor)]
              /\ Respond(r, 200, IF HasLike(reqs[r].seenLikes, reqs[r].actor)
                              THEN "Thread unliked" ELSE "Thread liked")
  /\ UNCHANGED <<categories, users, posts, started, hist>>

\* ---------------------------------------------------------------- posts routes
\* Post.findOne({ _id, isActive: true })
FindActivePost(p) == p \in PostIds /\ posts[p].exists /\ posts[p].isActive

\* Post.findOne({ _id: parentPostId, thread: threadId, isActive: true })
FindParentPost(p, t) == FindActivePost(p) /\ posts[p].thread = t

\* variant: the lock test is missing
IsLocked_Ignored(t) == FALSE

\* if (thread.isLocked)
IsLocked(t) == threads[t].isLocked

\* room for one more Post document within the bound
PostRoom ==
  Cardinality(ExistingPosts)
    + Cardinality({q \in ReqIds : reqs[q].pc \in {"cp_findParent", "cp_save"}})
      < MaxPosts

\* POST /posts: validation, Thread.findOne and the lock test
CreatePost_FindThread(r, actor, content, t, parent) ==
  /\ CanStart(r)
  /\ IF content = Empty \/ t = NoThread
       THEN Reject(r, 400, "Content and thread ID are required")
     ELSE IF ~FindActiveThread(t)
       THEN Reject(r, 404, "Thread not found")
     ELSE IF IsLocked(t)
       THEN Reject(r, 403, "Thread is locked")
     ELSE /\ PostRoom
          /\ reqs' = [reqs EXCEPT ![r] = [IdleReq EXCEPT
                        !.pc = IF parent # NoPost THEN "cp_findParent" ELSE "cp_save",
                        !.op = "createPost", !.actor = actor, !.tid = t,
                        !.cid = threads[t].category, !.parent = parent,
                        !.content = content]]
          /\ started' = started + 1
          /\ UNCHANGED <<store, hist, response>>

\* POST /posts: Post.findOne of the parent post
CreatePost_FindParent(r) ==
  /\ reqs[r].pc = "cp_findParent"
  /\ IF FindParentPost(reqs[r].parent, reqs[r].tid)
       THEN reqs' = [reqs EXCEPT ![r].pc = "cp_save"] /\ UNCHANGED response
       ELSE Respond(r, 404, "Parent post not found")
  /\ UNCHANGED <<store, started, hist>>

\* variant: the thread counter is updated before post.save() is awaited
CreatePost_Save_CounterFirst(r) ==
  /\ reqs[r].pc = "cp_save"
  /\ threads' = [threads EXCEPT ![reqs[r].tid].replyCount = @ + 1,
                                ![reqs[r].tid].lastReply = reqs[r].actor]
  /\ reqs' = [reqs EXCEPT ![r].pc = "cp_incUser"]
  /\ UNCHANGED <<categories, users, posts, started, response, hist>>

\* POST /posts: await post.save()
CreatePost_Save(r) ==
  /\ reqs[r].pc = "cp_save"
  /\ LET p == NextPostId IN
       /\ posts' = [posts EXCEPT ![p] =
            NewPost(reqs[r].actor, reqs[r].tid, reqs[r].parent, reqs[r].content)]
       /\ reqs' = [reqs EXCEPT ![r].pc = "cp_updateThread", ![r].pid = p,
                               ![r].committed = TRUE]
  /\ UNCHANGED <<categories, users, threads, started, response, hist>>

\* POST /posts: Thread.findByIdAndUpdate(threadId, {$inc: {replyCount: 1}, lastReply})
CreatePost_UpdateThread(r) ==
  /\ reqs[r].pc = "cp_updateThread"
  /\ threads' = [threads EXCEPT ![reqs[r].tid].replyCount = @ + 1,
                                ![reqs[r].tid].lastReply = reqs[r].actor]
  /\ reqs' = [reqs EXCEPT ![r].pc = "cp_incUser"]
  /\ UNCHANGED <<categories, users, posts, started, response, hist>>

\* variant: the increment goes to the author of the thread
CreatePost_IncUser_ThreadAuthor(r) ==
  /\ reqs[r].pc = "cp_incUser"
  /\ users' = [users EXCEPT ![threads[reqs[r].tid].author].postCount = @ + 1]
  /\ reqs' = [reqs EXCEPT ![r].pc = "cp_incCategory"]
  /\ UNCHANGED <<categories, threads, posts, started, response, hist>>

\* POST /posts: User.findByIdAndUpdate(req.user._id, {$inc: {postCount: 1}})
CreatePost_IncUser(r) ==
  /\ reqs[r].pc = "cp_incUser"
  /\ users' = [users EXCEPT ![reqs[r].actor].postCount = @ + 1]
  /\ reqs' = [reqs EXCEPT ![r].pc = "cp_incCategory"]
  /\ UNCHANGED <<categories, threads, posts, started, response, hist>>

\* POST /posts: Category.findByIdAndUpdate(thread.category, {$inc: {postCount: 1}})
CreatePost_IncCategory(r) ==
  /\ reqs[r].pc = "cp_incCategory"
  /\ categories' = [categories EXCEPT ![reqs[r].cid].postCount = @ + 1]
  /\ reqs' = [reqs EXCEPT ![r].pc = "cp_populate"]
  /\ UNCHANGED <<users, threads, posts, started, response, hist>>

\* POST /posts: Post.findById(post._id).populate(..) and the 201 response
CreatePost_Populate(r) ==
  /\ reqs[r].pc = "cp_populate"
  /\ Respond(r, 201, "Post created successfully")
  /\ UNCHANGED <<store, started, hist>>

\* POST /posts/:id/like: Post.findOne
LikePost_Find(r, actor, p) ==
  /\ CanStart(r)
  /\ IF ~FindActivePost(p)
       THEN Reject(r, 404, "Post not found")
     ELSE /\ reqs' = [reqs EXCEPT ![r] = [IdleReq EXCEPT
                        !.pc = "lp_save", !.op = "likePost", !.actor = actor,
                        !.pid = p, !.seenLikes = posts[p].likes,
                        !.seenV = posts[p].v]]
          /\ started' = started + 1
          /\ UNCHANGED <<store, hist, response>>

\* POST /posts/:id/like: the toggle of post.likes and await post.save()
LikePost_Save(r) ==
  /\ reqs[r].pc = "lp_save"
  /\ LET p == reqs[r].pid IN
       IF ToggleConflict(posts[p], reqs[r].seenLikes, reqs[r].seenV, reqs[r].actor)
         THEN /\ Respond(r, 500, "Server error")
              /\ UNCHANGED posts
         ELSE /\ posts' = [posts EXCEPT ![p] =
                   ToggleWrite(@, reqs[r].seenLikes, reqs[r].actor)]
              /\ Respond(r, 200, IF HasLike(reqs[r].seenLikes, reqs[r].actor)
                              THEN "Post unliked" ELSE "Post liked")
  /\ UNCHANGED <<categories, users, threads, started, hist>>

\* PUT /posts/:id: validation, Post.findOne and the author test
UpdatePost_Find(r, actor, p, content) ==
  /\ CanStart(r)
  /\ IF content = Empty
       THEN Reject(r, 400, "Content is required")
     ELSE IF ~FindActivePost(p)
       THEN Reject(r, 404, "Post not found")
     ELSE IF ~IsAuthor(posts[p].author, actor)
       THEN Reject(r, 403, "Not authorized to edit this post")
     ELSE /\ reqs' = [reqs EXCEPT ![r] = [IdleReq EXCEPT
                        !.pc = "up_save", !.op = "updatePost", !.actor = actor,
                        !.pid = p, !.content = content,
                        !.seenContent = posts[p].content]]
          /\ started' = started + 1
          /\ UNCHANGED <<store, hist, response>>

\* PUT /posts/:id: editHistory.push(old content), content, isEdited; await post.save()
UpdatePost_Save(r) ==
  /\ reqs[r].pc = "up_save"
  /\ posts' = [posts EXCEPT
       ![reqs[r].pid].editHistory = Append(@, reqs[r].seenContent),
       ![reqs[r].pid].content = reqs[r].content,
       ![reqs[r].pid].isEdited = TRUE,
       ![reqs[r].pid].v = @ + 1]
  /\ reqs' = [reqs EXCEPT ![r].pc = "up_populate"]
  /\ UNCHANGED <<categories, users, threads, started, response, hist>>

\* PUT /posts/:id: Post.findById(..).populate(..) and the 200 response
UpdatePost_Populate(r) ==
  /\ reqs[r].pc = "up_populate"
  /\ Respond(r, 200, "Post updated successfully")
  /\ UNCHANGED <<store, started, hist>>

\* DELETE /posts/:id: Post.findOne(..).populate('thread') and the author-or-admin test
DeletePost_Find(r, actor, p) ==
  /\ CanStart(r)
  /\ IF ~FindActivePost(p)
       THEN Reject(r, 404, "Post not found")
     ELSE IF ~IsAuthorOrAdmin(posts[p].author, actor)
       THEN Reject(r, 403, "Not authorized to delete this post")
     ELSE /\ reqs' = [reqs EXCEPT ![r] = [IdleReq EXCEPT
                        !.pc = "dp_save", !.op = "deletePost", !.actor = actor,
                        !.pid = p, !.tid = posts[p].thread,
                        !.owner = posts[p].author,
                        !.cid = threads[posts[p].thread].category]]
          /\ started' = started + 1
          /\ UNCHANGED <<store, hist, response>>

\* DELETE /posts/:id: post.isActive = false; await post.save()
DeletePost_Save(r) ==
  /\ reqs[r].pc = "dp_save"
  /\ posts' = [posts EXCEPT ![reqs[r].pid].isActive = FALSE]
  /\ reqs' = [reqs EXCEPT ![r].pc = "dp_decThread", ![r].committed = TRUE]
  /\ UNCHANGED <<categories, users, threads, started, response, hist>>

\* variant: the reply count of the thread is not decremented
DeletePost_DecThread_Missing(r) ==
  /\ reqs[r].pc = "dp_decThread"
  /\ reqs' = [reqs EXCEPT ![r].pc = "dp_decUser"]
  /\ UNCHANGED <<store, started, response, hist>>

\* DELETE /posts/:id: Thread.findByIdAndUpdate(post.thread._id, {$inc: {replyCount: -1}})
DeletePost_DecThread(r) ==
  /\ reqs[r].pc = "dp_decThread"
  /\ threads' = [threads EXCEPT ![reqs[r].tid].replyCount = @ - 1]
  /\ postDecs' = [postDecs EXCEPT ![reqs[r].pid].reply = @ + 1]
  /\ reqs' = [reqs EXCEPT ![r].pc = "dp_decUser"]
  /\ UNCHANGED <<categories, users, posts, started, response, threadDecs, reads>>

\* variant: the decrement goes to req.user._id, the user who deletes
DeletePost_DecUser_Actor(r) ==
  /\ reqs[r].pc = "dp_decUser"
  /\ users' = [users EXCEPT ![reqs[r].actor].postCount = @ - 1]
  /\ postDecs' = [postDecs EXCEPT ![reqs[r].pid].user = @ + 1]
  /\ reqs' = [reqs EXCEPT ![r].pc = "dp_decCategory"]
  /\ UNCHANGED <<categories, threads, posts, started, response, threadDecs, reads>>

\* DELETE /posts/:id: User.findByIdAndUpdate(post.author, {$inc: {postCount: -1}})
DeletePost_DecUser(r) ==
  /\ reqs[r].pc = "dp_decUser"
  /\ users' = [users EXCEPT ![reqs[r].owner].postCount = @ - 1]
  /\ postDecs' = [postDecs EXCEPT ![reqs[r].pid].user = @ + 1]
  /\ reqs' = [reqs EXCEPT ![r].pc = "dp_decCategory"]
  /\ UNCHANGED <<categories, threads, posts, started, response, threadDecs, reads>>

\* variant: the category decrement hits threadCount instead of postCount
DeletePost_DecCategory_WrongField(r) ==
  /\ reqs[r].pc = "dp_decCategory"
  /\ categories' = [categories EXCEPT ![reqs[r].cid].threadCount = @ - 1]
  /\ postDecs' = [postDecs EXCEPT ![reqs[r].pid].cat = @ + 1]
  /\ Respond(r, 200, "Post deleted successfully")
  /\ UNCHANGED <<users, threads, posts, started, threadDecs, reads>>

\* DELETE /posts/:id: Category.findByIdAndUpdate(post.thread.category, {$inc: {postCount: -1}})
DeletePost_DecCategory(r) ==
  /\ reqs[r].pc = "dp_decCategory"
  /\ categories' = [categories EXCEPT ![reqs[r].cid].postCount = @ - 1]
  /\ postDecs' = [postDecs EXCEPT ![reqs[r].pid].cat = @ + 1]
  /\ Respond(r, 200, "Post deleted successfully")
  /\ UNCHANGED <<users, threads, posts, started, threadDecs, reads>>

\* ---------------------------------------------------------------- categories routes
\* The category write routes run behind requireRole(['admin']): their handlers
\* are reached by admin actors only.  Each awaits a single store call, so each
\* is one action.  Request bodies carry every field the handler reads.
Admins == {u \in Users : Role(u) = "admin"}
NameInputs == {"Help", "News", Empty}
DescriptionInputs == {"d", Empty}

ExistingCategories == {c \in CategoryIds : categories[c].exists}

\* the _id the store gives the next inserted Category
NextCategoryId == CHOOSE c \in CategoryIds \ ExistingCategories : TRUE

\* the unique index on Category.name rejects the write (error.code 11000)
DuplicateName(name, self) ==
  \E c \in ExistingCategories : c # self /\ categories[c].name = name

\* POST /categories: validation, category.save() and the response
CreateCategory(r, actor, name, description) ==
  /\ CanStart(r)
  /\ actor \in Admins
  /\ IF name = Empty \/ description = Empty
       THEN Reject(r, 400, "Name and description are required")
     ELSE IF DuplicateName(name, None)
       THEN Reject(r, 400, "Category name already exists")
     ELSE /\ ExistingCategories # CategoryIds
          /\ categories' = [categories EXCEPT ![NextCategoryId] = NewCategory(name)]
          /\ Respond(r, 201, "Category created successfully")
          /\ started' = started + 1
          /\ UNCHANGED <<users, threads, posts, hist>>

\* PUT /categories/:id: Category.findByIdAndUpdate(id, {name, .., isActive});
\* the catch block has no error.code === 11000 branch and answers 500
UpdateCategory(r, actor, c, name, active) ==
  /\ CanStart(r)
  /\ actor \in Admins
  /\ IF ~(c \in ExistingCategories)
       THEN Reject(r, 404, "Category not found")
     ELSE IF DuplicateName(name, c)
       THEN Reject(r, 500, "Server error")
     ELSE /\ categories' = [categories EXCEPT ![c].name = name,
                                              ![c].isActive = active]
          /\ Respond(r, 200, "Category updated successfully")
          /\ started' = started + 1
          /\ UNCHANGED <<users, threads, posts, hist>>

\* DELETE /categories/:id: Category.findByIdAndUpdate(id, {isActive: false})
DeleteCategory(r, actor, c) ==
  /\ CanStart(r)
  /\ actor \in Admins
  /\ IF ~(c \in ExistingCategories)
       THEN Reject(r, 404, "Category not found")
     ELSE /\ categories' = [categories EXCEPT ![c].isActive = FALSE]
          /\ Respond(r, 200, "Category deleted successfully")
          /\ started' = started + 1
          /\ UNCHANGED <<users, threads, posts, hist>>

\* ---------------------------------------------------------------- list routes
\* Each list handler awaits its find (with its populate calls) and then its
\* countDocuments; GET /categories awaits one find.  The response is kept in
\* listing: the page of documents, the documents populate resolved inside
\* them, and the pagination object.
Range(seq) == {seq[i] : i \in 1..Len(seq)}

\* .sort(..): the documents of a result in descending order of a numeric key
RECURSIVE SortDesc(_, _)
SortDesc(S, key) ==
  IF S = {} THEN <<>>
  ELSE LET m == CHOOSE x \in S : \A y \in S : key[y] <= key[x]
       IN <<m>> \o SortDesc(S \ {m}, key)

\* .limit(limit).skip((page - 1) * limit)
PageOf(seq, page, limit) ==
  SubSeq(seq, (page - 1) * limit + 1,
         IF page * limit < Len(seq) THEN page * limit ELSE Len(seq))

\* Math.ceil(total / limit)
CeilDiv(total, limit) ==
  IF total % limit = 0 THEN total \div limit ELSE total \div limit + 1

\* variant: hasNext also on the last page
Pagination_OffByOne(page, limit, total) ==
  [present |-> TRUE, currentPage |-> page, totalPages |-> CeilDiv(total, limit),
   total |-> total, hasNext |-> page <= CeilDiv(total, limit), hasPrev |-> page > 1]

\* pagination: {currentPage, totalPages, total.., hasNext, hasPrev}
Pagination(page, limit, total) ==
  [present |-> TRUE, currentPage |-> page, totalPages |-> CeilDiv(total, limit),
   total |-> total, hasNext |-> page < CeilDiv(total, limit), hasPrev |-> page > 1]

PagedRoutes == {"threads", "posts", "userThreads", "userPosts", "users"}
ListRoutes == PagedRoutes \cup {"categories"}

\* what a list route answers about paging: GET /categories reads no page or
\* limit and answers data and count only
RoutePagination(route, page, limit, total) ==
  IF route \in PagedRoutes THEN Pagination(page, limit, total) ELSE NoPagination

\* the response of a list handler
Answer(r, route, total) ==
  /\ listing' = [route |-> route, seq |-> started, items |-> reqs[r].found,
                 populated |-> reqs[r].populated,
                 pagination |-> RoutePagination(route, reqs[r].page,
                                                reqs[r].limit, total)]
  /\ Respond(r, 200, None)
  /\ UNCHANGED <<store, started, hist>>

\* a list handler suspends at its countDocuments
AwaitCount(r, pc, op, page, limit, query, found, refs) ==
  /\ reqs' = [reqs EXCEPT ![r] = [IdleReq EXCEPT
                !.pc = pc, !.op = op, !.page = page, !.limit = limit,
                !.query = query, !.found = found, !.populated = refs]]
  /\ UNCHANGED <<store, hist, response, listing>>

\* GET /threads: query = { isActive: true } and query.category
ThreadsMatching(category) ==
  {t \in ExistingThreads :
     threads[t].isActive /\ (category = Empty \/ threads[t].category = category)}

\* GET /threads sort options over the fields carried here: 'replies' is
\* {replyCount: -1, createdAt: -1}; 'likes' is {'likes.length': -1, createdAt: -1},
\* whose first path no document has, so that createdAt decides.  createdAt
\* follows the order of the ids.
SortInputs == {"replies", "likes"}
ThreadSortKey(sort) ==
  [t \in ThreadIds |->
     IF sort = "replies" THEN threads[t].replyCount * (MaxThreads + 1) + t ELSE t]
NewestFirst == [x \in ThreadIds \cup PostIds |-> x]
OldestFirst == [x \in ThreadIds \cup PostIds |-> 0 - x]

\* .populate('author').populate('category').populate('lastReply.author')
ThreadRefs(T) ==
  [NoRefs EXCEPT
     !.users = {threads[t].author : t \in T}
                 \cup ({threads[t].lastReply : t \in T} \ {None}),
     !.categories = {threads[t].category : t \in T}]

\* GET /threads: Thread.find(query).populate(..).sort(..).limit(..).skip(..)
ListThreads_Find(r, page, limit, category, sort) ==
  /\ CanStart(r)
  /\ LET found == PageOf(SortDesc(ThreadsMatching(category), ThreadSortKey(sort)),
                         page, limit)
     IN AwaitCount(r, "lst_count", "listThreads", page, limit, category,
                   found, ThreadRefs(Range(found)))
  /\ started' = started + 1

\* GET /threads: Thread.countDocuments(query) and the response
ListThreads_Count(r) ==
  /\ reqs[r].pc = "lst_count"
  /\ Answer(r, "threads", Cardinality(ThreadsMatching(reqs[r].query)))

\* GET /posts/thread/:threadId: Post.find({ thread, isActive: true })
PostsOfThread(t) ==
  {p \in ExistingPosts : posts[p].thread = t /\ posts[p].isActive}

\* .populate('author').populate('parentPost', 'content author')
PostRefs(P) ==
  [NoRefs EXCEPT
     !.users = {posts[p].author : p \in P},
     !.posts = {posts[p].parentPost : p \in P} \ {NoPost}]

\* GET /posts/thread/:threadId: Thread.findOne
ListPosts_FindThread(r, t, page, limit) ==
  /\ CanStart(r)
  /\ IF ~FindActiveThread(t)
       THEN Reject(r, 404, "Thread not found") /\ UNCHANGED listing
     ELSE /\ reqs' = [reqs EXCEPT ![r] = [IdleReq EXCEPT
                        !.pc = "lsp_find", !.op = "listPosts", !.tid = t,
                        !.page = page, !.limit = limit]]
          /\ started' = started + 1
          /\ UNCHANGED <<store, hist, response, listing>>

\* GET /posts/thread/:threadId: Post.find(..).populate(..).sort({createdAt: 1})
ListPosts_Find(r) ==
  /\ reqs[r].pc = "lsp_find"
  /\ LET found == PageOf(SortDesc(PostsOfThread(reqs[r].tid), OldestFirst),
                         reqs[r].page, reqs[r].limit)
     IN reqs' = [reqs EXCEPT ![r].pc = "lsp_count", ![r].found = found,
                             ![r].populated = PostRefs(Range(found))]
  /\ UNCHANGED <<store, started, hist, response, listing>>

\* GET /posts/thread/:threadId: Post.countDocuments(..) and the response
ListPosts_Count(r) ==
  /\ reqs[r].pc = "lsp_count"
  /\ Answer(r, "posts", Cardinality(PostsOfThread(reqs[r].tid)))

\* GET /categories: Category.find({ isActive: true }).sort({ order: 1, name: 1 });
\* order is 0 on every category here, so that the name decides
NameRank(name) ==
  CASE name = "General" -> 1 [] name = "Help" -> 2 [] name = "News" -> 3
    [] OTHER -> 4
ActiveCategories == {c \in ExistingCategories : categories[c].isActive}
ListCategories(r) ==
  /\ CanStart(r)
  /\ listing' = [route |-> "categories", seq |-> started + 1,
                 items |-> SortDesc(ActiveCategories,
                             [c \in CategoryIds |-> 0 - NameRank(categories[c].name)]),
                 populated |-> NoRefs,
                 pagination |-> RoutePagination("categories", 0, 0,
                                                Cardinality(ActiveCategories))]
  /\ Respond(r, 200, None)
  /\ started' = started + 1
  /\ UNCHANGED <<store, hist>>

\* ---------------------------------------------------------------- users routes
\* GET /users/:id/threads: Thread.find({ author, isActive: true })
ThreadsOfUser(u) ==
  {t \in ExistingThreads : threads[t].author = u /\ threads[t].isActive}

\* GET /users/:id/threads: Thread.find(..).populate('category').sort({createdAt: -1})
ListUserThreads_Find(r, u, page, limit) ==
  /\ CanStart(r)
  /\ LET found == PageOf(SortDesc(ThreadsOfUser(u), NewestFirst), page, limit)
     IN AwaitCount(r, "lsut_count", "listUserThreads", page, limit, u, found,
                   [NoRefs EXCEPT
                      !.categories = {threads[t].category : t \in Range(found)}])
  /\ started' = started + 1

\* GET /users/:id/threads: Thread.countDocuments(..) and the response
ListUserThreads_Count(r) ==
  /\ reqs[r].pc = "lsut_count"
  /\ Answer(r, "userThreads", Cardinality(ThreadsOfUser(reqs[r].query)))

\* GET /users/:id/posts: Post.find({ author, isActive: true })
PostsOfUser(u) ==
  {p \in ExistingPosts : posts[p].author = u /\ posts[p].isActive}

\* GET /users/:id/posts: Post.find(..).populate('thread', 'title').sort({createdAt: -1})
ListUserPosts_Find(r, u, page, limit) ==
  /\ CanStart(r)
  /\ LET found == PageOf(SortDesc(PostsOfUser(u), NewestFirst), page, limit)
     IN AwaitCount(r, "lsup_count", "listUserPosts", page, limit, u, found,
                   [NoRefs EXCEPT
                      !.threads = {posts[p].thread : p \in Range(found)}])
  /\ started' = started + 1

\* GET /users/:id/posts: Post.countDocuments(..) and the response
ListUserPosts_Count(r) ==
  /\ reqs[r].pc = "lsup_count"
  /\ Answer(r, "userPosts", Cardinality(PostsOfUser(reqs[r].query)))

\* usernames as character sequences; every bio is the empty default
Username(u) ==
  CASE u = "alice" -> <<"a", "l", "i", "c", "e">>
    [] u = "bob" -> <<"b", "o", "b">>
    [] u = "root" -> <<"r", "o", "o", "t">>
    [] OTHER -> <<"c", "a", "r", "o", "l">>
\* the order in which the accounts were created; reputation is 0 on all
CreatedRank(u) ==
  CASE u = "alice" -> 1 [] u = "bob" -> 2 [] u = "root" -> 3 [] OTHER -> 4
QueryInputs == {<<>>, <<"o">>, <<"A", "l">>}

\* { $regex: q, $options: 'i' } on a text
Lower(ch) == IF ch = "A" THEN "a" ELSE ch
LowerAll(text) == [i \in 1..Len(text) |-> Lower(text[i])]
Contains(text, q) ==
  \E i \in 1..(Len(text) - Len(q) + 1) :
    SubSeq(LowerAll(text), i, i + Len(q) - 1) = LowerAll(q)

\* GET /users: query = { isActive: true } and, with q, the $or of the two regexes
UsersMatching(q) ==
  {u \in Accounts :
     users[u].isActive /\ (q = <<>> \/ Contains(Username(u), q) \/ Contains(<<>>, q))}

\* GET /users: User.find(query).sort({ reputation: -1, createdAt: -1 })
SearchUsers_Find(r, q, page, limit) ==
  /\ CanStart(r)
  /\ AwaitCount(r, "lsu_count", "searchUsers", page, limit, q,
                PageOf(SortDesc(UsersMatching(q), [u \in Accounts |-> CreatedRank(u)]),
                       page, limit),
                NoRefs)
  /\ started' = started + 1

\* GET /users: User.countDocuments(query) and the response
SearchUsers_Count(r) ==
  /\ reqs[r].pc = "lsu_count"
  /\ Answer(r, "users", Cardinality(UsersMatching(reqs[r].query)))

\* ---------------------------------------------------------------- specifications
\* a store call of a handler in flight fails (network, server): the handler's
\* catch block answers 500 and nothing is written
StoreFail(r) ==
  /\ reqs[r].pc # "idle"
  /\ Respond(r, 500, "Server error")
  /\ UNCHANGED <<store, started, hist>>

ThreadInputs == ThreadIds \cup {NoThread}
PostInputs == PostIds \cup {NoPost}
ContentInputs == Contents \cup {Empty}
NewContentInputs == {"v1", Empty}
CategoryInputs == CategoryIds \cup {Empty, GhostCategory}

\* a request arrives and its handler runs up to its first suspension
Arrive(r) ==
  \/ \E actor \in Users, title \in Titles \cup {Empty},
        content \in NewContentInputs, category \in CategoryInputs :
       CreateThread_Find(r, actor, title, content, category)
  \/ \E actor \in Users, t \in ThreadInputs : DeleteThread_Find(r, actor, t)
  \/ \E actor \in Users, t \in ThreadInputs, content \in ContentInputs :
       UpdateThread_Find(r, actor, t, content)
  \/ \E actor \in Users, t \in ThreadInputs : LikeThread_Find(r, actor, t)
  \/ \E actor \in Users, content \in NewContentInputs, t \in ThreadInputs,
        parent \in PostInputs :
       CreatePost_FindThread(r, actor, content, t, parent)
  \/ \E actor \in Users, p \in PostInputs : LikePost_Find(r, actor, p)
  \/ \E actor \in Users, p \in PostInputs, content \in ContentInputs :
       UpdatePost_Find(r, actor, p, content)
  \/ \E actor \in Users, p \in PostInputs : DeletePost_Find(r, actor, p)

\* a handler in flight resumes after the store call it awaits
Resume(r) ==
  \/ CreateThread_Save(r) \/ CreateThread_IncCategory(r)
  \/ CreateThread_IncUser(r) \/ CreateThread_Populate(r)
  \/ DeleteThread_Save(r) \/ DeleteThread_DecCategory(r)
  \/ UpdateThread_Save(r) \/ UpdateThread_Populate(r)
  \/ LikeThread_Save(r)
  \/ CreatePost_FindParent(r) \/ CreatePost_Save(r) \/ CreatePost_UpdateThread(r)
  \/ CreatePost_IncUser(r) \/ CreatePost_IncCategory(r) \/ CreatePost_Populate(r)
  \/ LikePost_Save(r)
  \/ UpdatePost_Save(r) \/ UpdatePost_Populate(r)
  \/ DeletePost_Save(r) \/ DeletePost_DecThread(r)
  \/ DeletePost_DecUser(r) \/ DeletePost_DecCategory(r)

\* requests handled concurrently, every store call succeeding
Next ==
  /\ \E r \in ReqIds : (started < MaxOps /\ Arrive(r)) \/ Resume(r)
  /\ UNCHANGED <<trail, listing, pageCase>>
Spec == Init /\ [][Next]_vars

\* requests handled one after the other, every store call succeeding
NextSeq ==
  /\ \E r \in ReqIds :
       (Quiescent /\ started < MaxSeqOps /\ Arrive(r)) \/ Resume(r)
  /\ UNCHANGED <<trail, listing, pageCase>>

\* the record the history keeps of a request: what the handler in slot r
\* retained of it (nothing when it was rejected at once), the status of its
\* response (0 while the handler is in flight) and the store before it
TrailEntry(r) ==
  [op |-> reqs'[r].op, actor |-> reqs'[r].actor, tid |-> reqs'[r].tid,
   pid |-> reqs'[r].pid, cid |-> reqs'[r].cid,
   status |-> IF reqs'[r].pc = "idle" THEN response'.status ELSE 0,
   pre |-> [categories |-> categories, users |-> users,
            threads |-> threads, posts |-> posts]]

\* the history takes the status of the response when the handler ends
Settle(r) ==
  trail' = IF reqs'[r].pc = "idle"
             THEN [trail EXCEPT ![Len(trail)].status = response'.status]
             ELSE trail

\* the history keeps the TrailLen latest requests
Remember(e) ==
  trail' = IF Len(trail) < TrailLen THEN Append(trail, e)
           ELSE Append(Tail(trail), e)

\* requests handled one after the other, with the history of the latest ones
NextHist ==
  /\ \E r \in ReqIds :
       \/ /\ Quiescent /\ started < MaxHistOps
          /\ Arrive(r)
          /\ Remember(TrailEntry(r))
       \/ Resume(r) /\ Settle(r)
  /\ UNCHANGED <<listing, pageCase>>
SpecHist == Init /\ [][NextHist]_vars
SpecSeq == Init /\ [][NextSeq]_vars

\* a category write request arrives and its handler runs to its response
ArriveAdmin(r) ==
  \/ \E actor \in Users, name \in NameInputs, description \in DescriptionInputs :
       CreateCategory(r, actor, name, description)
  \/ \E actor \in Users, c \in CategoryIds \cup {GhostCategory},
        name \in NameInputs \ {Empty}, active \in BOOLEAN :
       UpdateCategory(r, actor, c, name, active)
  \/ \E actor \in Users, c \in CategoryIds \cup {GhostCategory} :
       DeleteCategory(r, actor, c)

\* all routes, category administration included, handled concurrently
NextAdmin ==
  /\ \E r \in ReqIds :
       (started < MaxAdminOps /\ (Arrive(r) \/ ArriveAdmin(r))) \/ Resume(r)
  /\ UNCHANGED <<trail, listing, pageCase>>
SpecAdmin == Init /\ [][NextAdmin]_vars

\* requests handled concurrently, any store call may fail
NextFail ==
  /\ \E r \in ReqIds :
       (started < MaxFailOps /\ Arrive(r)) \/ Resume(r) \/ StoreFail(r)
  /\ UNCHANGED <<trail, listing, pageCase>>
SpecFail == Init /\ [][NextFail]_vars

\* detail reads of threads, handled concurrently with like-toggle, edit and
\* post-create requests
ArriveViews(r) ==
  \/ \E actor \in Users \cup {None}, t \in ThreadInputs : GetThread(r, actor, t)
  \/ \E actor \in Users, t \in ThreadIds : LikeThread_Find(r, actor, t)
  \/ \E actor \in Users, t \in ThreadIds, content \in Contents :
       UpdateThread_Find(r, actor, t, content)
  \/ \E actor \in Users, t \in ThreadIds, parent \in PostInputs :
       CreatePost_FindThread(r, actor, "v1", t, parent)

ResumeViews(r) ==
  \/ LikeThread_Save(r)
  \/ UpdateThread_Save(r) \/ UpdateThread_Populate(r)
  \/ CreatePost_FindParent(r) \/ CreatePost_Save(r) \/ CreatePost_UpdateThread(r)
  \/ CreatePost_IncUser(r) \/ CreatePost_IncCategory(r) \/ CreatePost_Populate(r)

NextViews ==
  /\ \E r \in ReqIds : (started < MaxViewOps /\ ArriveViews(r)) \/ ResumeViews(r)
  /\ UNCHANGED <<trail, listing, pageCase>>
SpecViews == Init /\ [][NextViews]_vars

\* a list request arrives and its handler runs up to its first suspension
ArriveList(r) ==
  \/ \E page \in 1..MaxPage, limit \in 1..MaxLimit,
        category \in CategoryIds \cup {Empty}, sort \in SortInputs :
       ListThreads_Find(r, page, limit, category, sort)
  \/ \E t \in ThreadInputs, page \in 1..MaxPage, limit \in 1..MaxLimit :
       ListPosts_FindThread(r, t, page, limit)
  \/ ListCategories(r)
  \/ \E u \in Accounts, page \in 1..MaxPage, limit \in 1..MaxLimit :
       ListUserThreads_Find(r, u, page, limit)
  \/ \E u \in Accounts, page \in 1..MaxPage, limit \in 1..MaxLimit :
       ListUserPosts_Find(r, u, page, limit)
  \/ \E q \in QueryInputs, page \in 1..MaxPage, limit \in 1..MaxLimit :
       SearchUsers_Find(r, q, page, limit)

\* a list handler in flight resumes after the store call it awaits
ResumeList(r) ==
  \/ ListThreads_Count(r)
  \/ ListPosts_Find(r) \/ ListPosts_Count(r)
  \/ ListUserThreads_Count(r) \/ ListUserPosts_Count(r)
  \/ SearchUsers_Count(r)

\* all routes, the list routes included, handled one after the other
NextList ==
  /\ \E r \in ReqIds :
       \/ /\ Quiescent /\ started < MaxListOps
          /\ (Arrive(r) \/ ArriveAdmin(r))
          /\ UNCHANGED listing
       \/ Resume(r) /\ UNCHANGED listing
       \/ Quiescent /\ started < MaxListOps /\ ArriveList(r)
       \/ ResumeList(r)
  /\ UNCHANGED <<trail, pageCase>>
SpecList == Init /\ [][NextList]_vars

\* the pagination of a list route, for a page, a limit and a collection size
InitPage ==
  /\ categories = SeedCategories("empty")
  /\ users = SeedUsers("empty")
  /\ threads = SeedThreads("empty")
  /\ posts = SeedPosts("empty")
  /\ reqs = [r \in ReqIds |-> IdleReq]
  /\ response = [status |-> 0, message |-> None]
  /\ started = 0
  /\ postDecs = [p \in PostIds |-> [reply |-> 0, user |-> 0, cat |-> 0]]
  /\ threadDecs = [t \in ThreadIds |-> 0]
  /\ reads = [t \in ThreadIds |-> 0]
  /\ trail = <<>>
  /\ listing = NoListing
  /\ \E route \in ListRoutes, page \in 1..MaxPage, limit \in 1..MaxLimit,
        total \in 0..MaxTotal :
       pageCase = [NoPageCase EXCEPT !.route = route, !.page = page,
                                     !.limit = limit, !.total = total]

Paginate ==
  /\ ~pageCase.applied
  /\ pageCase' = [pageCase EXCEPT
                    !.applied = TRUE,
                    !.out = RoutePagination(pageCase.route, pageCase.page,
                                            pageCase.limit, pageCase.total)]
  /\ UNCHANGED <<store, reqs, started, response, hist, trail, listing>>

NextPage == Paginate
SpecPage == InitPage /\ [][NextPage]_vars

\* ---------------------------------------------------------------- properties
ActivePostsOfThread(t) ==
  {p \in PostIds : posts[p].exists /\ posts[p].isActive /\ posts[p].thread = t}
ActivePostsOfUser(u) ==
  {p \in PostIds : posts[p].exists /\ posts[p].isActive /\ posts[p].author = u}
ActiveThreadsOfUser(u) ==
  {t \in ThreadIds : threads[t].exists /\ threads[t].isActive /\ threads[t].author = u}
ActiveThreadsOfCategory(c) ==
  {t \in ThreadIds : threads[t].exists /\ threads[t].isActive /\ threads[t].category = c}
ActivePostsOfCategory(c) ==
  {p \in PostIds : posts[p].exists /\ posts[p].isActive
                     /\ threads[posts[p].thread].category = c}
NoDuplicates(seq) == \A i, j \in 1..Len(seq) : seq[i] = seq[j] => i = j

\* C1: whenever no request is mid-handler, replyCount of every thread equals
\* the number of active posts of that thread (requests interleave freely).
C1_ReplyCountMatches ==
  Quiescent =>
    \A t \in ExistingThreads :
      threads[t].replyCount = Cardinality(ActivePostsOfThread(t))

\* C2: whenever no request is mid-handler, after any sequence of requests,
\* postCount of every user equals the number of that user's active threads
\* plus the number of that user's active posts.
C2_UserPostCountMatches ==
  Quiescent =>
    \A u \in Users :
      users[u].postCount =
        Cardinality(ActiveThreadsOfUser(u)) + Cardinality(ActivePostsOfUser(u))

\* C3: the likes array of every thread and of every post holds at most one
\* entry per user, in every reachable state.
C3_LikesUnique ==
  /\ \A t \in ExistingThreads : NoDuplicates(threads[t].likes)
  /\ \A p \in ExistingPosts : NoDuplicates(posts[p].likes)

\* C4: the counter decrements of a deletion are never applied more than once
\* for one post or thread, and once no request is mid-handler they have been
\* applied exactly once for every soft-deleted post and thread.
C4_DecrementsOnce ==
  /\ \A p \in PostIds :
       /\ postDecs[p].reply <= 1 /\ postDecs[p].user <= 1 /\ postDecs[p].cat <= 1
       /\ (Quiescent /\ posts[p].exists /\ ~posts[p].isActive) =>
            postDecs[p] = [reply |-> 1, user |-> 1, cat |-> 1]
  /\ \A t \in ThreadIds :
       /\ threadDecs[t] <= 1
       /\ (Quiescent /\ threads[t].exists /\ ~threads[t].isActive) =>
            threadDecs[t] = 1

\* the denormalized counters and the lastReply cache
CounterView ==
  [category |-> [c \in CategoryIds |->
                   <<categories[c].threadCount, categories[c].postCount>>],
   user |-> [u \in Users |-> users[u].postCount],
   thread |-> [t \in ThreadIds |-> <<threads[t].replyCount, threads[t].lastReply>>]]

PrimaryWritePcs == {"ct_save", "dt_save", "cp_save", "dp_save"}

\* C5: in thread create, thread delete, post create and post delete, a step
\* that changes a counter is taken by a handler whose primary write has
\* already been applied, also when store calls fail; and a handler whose
\* primary write fails ends there without changing anything.
C5_PrimaryWriteFirst ==
  [][\A r \in ReqIds :
       /\ (CounterView' # CounterView /\ reqs'[r] # reqs[r]) => reqs[r].committed
       /\ (reqs[r].pc \in PrimaryWritePcs /\ reqs'[r].pc = "idle") =>
            (response'.status = 500 /\ UNCHANGED store)]_vars

C5_Witness ==
  \E r \in ReqIds :
    /\ reqs[r].pc = "cp_incUser" /\ reqs[r].committed
    /\ threads[reqs[r].tid].replyCount = Cardinality(ActivePostsOfThread(reqs[r].tid))
    /\ response.status = 500

\* C6: whenever no request is mid-handler, threadCount of every category equals
\* the number of active threads of that category (requests interleave freely).
C6_ThreadCountMatches ==
  Quiescent =>
    \A c \in CategoryIds :
      categories[c].threadCount = Cardinality(ActiveThreadsOfCategory(c))

\* C7: whenever no request is mid-handler, after any sequence of requests,
\* postCount of every category equals the number of active posts whose thread
\* has that category.
C7_CategoryPostCountMatches ==
  Quiescent =>
    \A c \in CategoryIds :
      categories[c].postCount = Cardinality(ActivePostsOfCategory(c))

C7_Witness ==
  /\ Quiescent
  /\ \E p, q \in ExistingPosts :
       /\ ~posts[p].isActive /\ posts[q].isActive
       /\ response.message = "Post deleted successfully"
       /\ categories[threads[posts[q].thread].category].postCount = 1

\* the handler in slot r went past its authorization test
Permitted(r) == reqs'[r].pc # "idle"

\* C8 as stated: every edit or delete of an active thread or post is permitted
\* if and only if the actor is the author or an admin.
C8_AuthorOrAdminEverywhere ==
  [][\A r \in ReqIds, actor \in Users :
       /\ \A t \in ThreadIds :
            FindActiveThread(t) =>
              LET ok == actor = threads[t].author \/ Role(actor) = "admin" IN
              /\ DeleteThread_Find(r, actor, t) => (Permitted(r) <=> ok)
              /\ \A c \in ContentInputs :
                   UpdateThread_Find(r, actor, t, c) => (Permitted(r) <=> ok)
       /\ \A p \in PostIds :
            FindActivePost(p) =>
              LET ok == actor = posts[p].author \/ Role(actor) = "admin" IN
              /\ DeletePost_Find(r, actor, p) => (Permitted(r) <=> ok)
              /\ \A c \in Contents :
                   UpdatePost_Find(r, actor, p, c) => (Permitted(r) <=> ok)]_vars

\* C8 (amended): an edit or delete of an active thread and a delete of an
\* active post are permitted if and only if the actor is the author or an
\* admin; an edit of an active post is permitted if and only if the actor is
\* its author.
C8_MutationPermission ==
  [][\A r \in ReqIds, actor \in Users :
       /\ \A t \in ThreadIds :
            FindActiveThread(t) =>
              LET ok == actor = threads[t].author \/ Role(actor) = "admin" IN
              /\ DeleteThread_Find(r, actor, t) => (Permitted(r) <=> ok)
              /\ \A c \in ContentInputs :
                   UpdateThread_Find(r, actor, t, c) => (Permitted(r) <=> ok)
       /\ \A p \in PostIds :
            FindActivePost(p) =>
              /\ DeletePost_Find(r, actor, p) =>
                   (Permitted(r) <=>
                      (actor = posts[p].author \/ Role(actor) = "admin"))
              /\ \A c \in Contents :
                   UpdatePost_Find(r, actor, p, c) =>
                     (Permitted(r) <=> actor = posts[p].author)]_vars

C8_Witness ==
  /\ response = [status |-> 403, message |-> "Not authorized to edit this post"]
  /\ \E r \in ReqIds :
       /\ reqs[r].op = "deletePost" /\ reqs[r].pc = "dp_save"
       /\ reqs[r].actor # reqs[r].owner /\ Role(reqs[r].actor) = "admin"

\* C9: an edit or delete of an active thread or post by an actor who is neither
\* its author nor an admin is answered 403 and leaves every document (the
\* entity and all counters) unchanged.
C9_ForbiddenChangesNothing ==
  [][\A r \in ReqIds, actor \in Users :
       Role(actor) # "admin" =>
         /\ \A t \in ThreadIds :
              (FindActiveThread(t) /\ actor # threads[t].author) =>
                /\ DeleteThread_Find(r, actor, t) =>
                     (response'.status = 403 /\ ~Permitted(r) /\ UNCHANGED store)
                /\ \A c \in ContentInputs :
                     UpdateThread_Find(r, actor, t, c) =>
                       (response'.status = 403 /\ ~Permitted(r) /\ UNCHANGED store)
         /\ \A p \in PostIds :
              (FindActivePost(p) /\ actor # posts[p].author) =>
                /\ DeletePost_Find(r, actor, p) =>
                     (response'.status = 403 /\ ~Permitted(r) /\ UNCHANGED store)
                /\ \A c \in Contents :
                     UpdatePost_Find(r, actor, p, c) =>
                       (response'.status = 403 /\ ~Permitted(r) /\ UNCHANGED store)]_vars

C9_Witness ==
  /\ response = [status |-> 403, message |-> "Not authorized to delete this thread"]
  /\ \E t \in ThreadIds : FindActiveThread(t) /\ threads[t].replyCount = 1
  /\ Quiescent

\* C10: a post-create on an active locked thread is answered 403, creates no
\* post and leaves replyCount, lastReply and every postCount unchanged.
C10_LockedThreadRejectsPost ==
  [][\A r \in ReqIds, actor \in Users, t \in ThreadIds, parent \in PostInputs,
        c \in Contents :
       (FindActiveThread(t) /\ threads[t].isLocked
          /\ CreatePost_FindThread(r, actor, c, t, parent)) =>
         /\ response' = [status |-> 403, message |-> "Thread is locked"]
         /\ ~Permitted(r)
         /\ UNCHANGED store]_vars

C10_Witness ==
  /\ response = [status |-> 403, message |-> "Thread is locked"]
  /\ \E t \in ThreadIds : FindActiveThread(t) /\ threads[t].isLocked
  /\ ExistingPosts = {}

\* the request handled in slot r ends with a 404 and nothing is written
NotFound(r) == response'.status = 404 /\ ~Permitted(r) /\ UNCHANGED store

\* missing or soft-deleted documents
ThreadGone(t) == ~threads[t].exists \/ ~threads[t].isActive
PostGone(p) == ~posts[p].exists \/ ~posts[p].isActive
CategoryGone(c) ==
  c \notin CategoryIds \/ ~categories[c].exists \/ ~categories[c].isActive

\* the lookups of the thread and post routes answer 404 without a write when
\* the thread, post or parent post they name is missing or soft-deleted
C11_LookupsAnswer404(r, actor) ==
  /\ \A t \in ThreadIds :
       ThreadGone(t) =>
         /\ \A c \in Contents, parent \in PostInputs :
              CreatePost_FindThread(r, actor, c, t, parent) => NotFound(r)
         /\ LikeThread_Find(r, actor, t) => NotFound(r)
         /\ DeleteThread_Find(r, actor, t) => NotFound(r)
         /\ \A c \in ContentInputs :
              UpdateThread_Find(r, actor, t, c) => NotFound(r)
  /\ \A p \in PostIds :
       PostGone(p) =>
         /\ LikePost_Find(r, actor, p) => NotFound(r)
         /\ DeletePost_Find(r, actor, p) => NotFound(r)
         /\ \A c \in Contents : UpdatePost_Find(r, actor, p, c) => NotFound(r)
  /\ (CreatePost_FindParent(r) /\ PostGone(reqs[r].parent)) => NotFound(r)

\* C11 as stated: every request with the required body fields that names a
\* missing or soft-deleted thread, post, parent post or (thread create)
\* category is answered 404 and writes nothing.
C11_MissingEntityIs404 ==
  [][\A r \in ReqIds, actor \in Users :
       /\ C11_LookupsAnswer404(r, actor)
       /\ \A c \in Contents, cat \in CategoryIds \cup {GhostCategory} :
            (CategoryGone(cat) /\ CreateThread_Find(r, actor, "t", c, cat)) =>
              NotFound(r)]_vars

\* C11 (amended): such a request is answered 404 and writes nothing when it
\* names a missing or soft-deleted thread, post or parent post; a thread create
\* whose category is missing or soft-deleted is answered 400 and writes nothing.
C11_MissingEntityRejected ==
  [][\A r \in ReqIds, actor \in Users :
       /\ C11_LookupsAnswer404(r, actor)
       /\ \A c \in Contents, cat \in CategoryIds \cup {GhostCategory} :
            (CategoryGone(cat) /\ CreateThread_Find(r, actor, "t", c, cat)) =>
              /\ response' = [status |-> 400, message |-> "Invalid category"]
              /\ ~Permitted(r)
              /\ UNCHANGED store]_vars

C11_Witness ==
  /\ response = [status |-> 400, message |-> "Invalid category"]
  /\ \E c \in ExistingCategories : ~categories[c].isActive

\* C12: a category create or update whose name is already used by another
\* category is answered 400 and leaves the categories unchanged.
C12_DuplicateNameIs400 ==
  [][\A r \in ReqIds, actor \in Admins, name \in NameInputs \ {Empty} :
       /\ (DuplicateName(name, None) /\ CreateCategory(r, actor, name, "d")) =>
            (response'.status = 400 /\ UNCHANGED categories)
       /\ \A c \in ExistingCategories, active \in BOOLEAN :
            (DuplicateName(name, c) /\ UpdateCategory(r, actor, c, name, active)) =>
              (response'.status = 400 /\ UNCHANGED categories)]_vars

\* ---- properties of whole requests handled one after the other (SpecHist)
\* the store as one record, and the store a request of the history left behind
StoreNow ==
  [categories |-> categories, users |-> users, threads |-> threads, posts |-> posts]
HasAfter(i) == i < Len(trail) \/ (i = Len(trail) /\ Quiescent)
After(i) == IF i < Len(trail) THEN trail[i + 1].pre ELSE StoreNow
\* request i of the history was answered 200 or 201
Succeeded(i) == trail[i].status \in {200, 201}
Users_Of(seq) == {seq[i] : i \in 1..Len(seq)}

\* C13: a post create on a thread followed at once by the delete of that post
\* leaves the thread's replyCount at the value it had before the create.
C13_CreateThenDeleteRestoresReplyCount ==
  \A i \in 1..Len(trail) :
    (i > 1 /\ HasAfter(i)
       /\ trail[i - 1].op = "createPost" /\ trail[i].op = "deletePost"
       /\ Succeeded(i - 1) /\ Succeeded(i)
       /\ ~trail[i - 1].pre.posts[trail[i].pid].exists) =>
      After(i).threads[trail[i - 1].tid].replyCount
        = trail[i - 1].pre.threads[trail[i - 1].tid].replyCount

C13_Witness ==
  /\ Quiescent /\ Len(trail) = 3
  /\ trail[2].op = "createPost" /\ trail[3].op = "deletePost"
  /\ ~trail[2].pre.posts[trail[3].pid].exists
  /\ trail[2].pre.threads[trail[2].tid].replyCount = 1
  /\ response.message = "Post deleted successfully"

\* the likes before the first and after the second of two toggles
SameLikes(before, after) ==
  Users_Of(after) = Users_Of(before) /\ Len(after) = Len(before)

C15_ThreadCreateCountsOnce ==
  \A i \in 1..Len(trail) :
    (HasAfter(i) /\ trail[i].op = "createThread" /\ Succeeded(i)) =>
      \A c \in CategoryIds :
        /\ After(i).categories[c].threadCount
             = trail[i].pre.categories[c].threadCount
                 + (IF c = trail[i].cid THEN 1 ELSE 0)
        /\ After(i).categories[c].postCount = trail[i].pre.categories[c].postCount

C15_Witness ==
  /\ Quiescent /\ Len(trail) >= 1
  /\ trail[Len(trail)].op = "createThread" /\ trail[Len(trail)].cid = "help"
  /\ categories["general"].threadCount = 1 /\ categories["general"].postCount = 1
  /\ categories["help"].threadCount = 1

\* C17: a thread soft-delete subtracts 1 from threadCount of the thread's
\* category and leaves every category's postCount, every user's postCount, the
\* thread's replyCount and lastReply, and every post unchanged.
C17_ThreadDeleteTouchesThreadCountOnly ==
  \A i \in 1..Len(trail) :
    (HasAfter(i) /\ trail[i].op = "deleteThread" /\ Succeeded(i)) =>
      LET t == trail[i].tid
          c == trail[i].pre.threads[t].category
      IN /\ After(i).categories[c].threadCount
              = trail[i].pre.categories[c].threadCount - 1
         /\ \A d \in CategoryIds :
              After(i).categories[d].postCount = trail[i].pre.categories[d].postCount
         /\ \A u \in Users :
              After(i).users[u].postCount = trail[i].pre.users[u].postCount
         /\ After(i).threads[t].replyCount = trail[i].pre.threads[t].replyCount
         /\ After(i).threads[t].lastReply = trail[i].pre.threads[t].lastReply
         /\ \A p \in PostIds :
              After(i).posts[p].isActive = trail[i].pre.posts[p].isActive

C17_Witness ==
  /\ Quiescent /\ Len(trail) >= 1
  /\ trail[Len(trail)].op = "deleteThread"
  /\ response.message = "Thread deleted successfully"
  /\ \E p \in PostIds :
       /\ posts[p].exists /\ posts[p].isActive
       /\ posts[p].thread = trail[Len(trail)].tid
       /\ posts[p].author # threads[posts[p].thread].author

\* the scenario of three requests: its first request is trail[i]
FreshStart(i) ==
  /\ trail[i].op = "createThread" /\ Succeeded(i)
  /\ trail[i].pre.categories[trail[i].cid].threadCount = 0
  /\ trail[i].pre.categories[trail[i].cid].postCount = 0
  /\ \A u \in Users : trail[i].pre.users[u].postCount = 0
\* the thread that request i created, the post that request i created
ThreadMadeBy(i) ==
  CHOOSE t \in ThreadIds : ~trail[i].pre.threads[t].exists /\ After(i).threads[t].exists
PostMadeBy(i) ==
  CHOOSE p \in PostIds : ~trail[i].pre.posts[p].exists /\ After(i).posts[p].exists
ReplyByOther(i) ==
  /\ FreshStart(i)
  /\ trail[i + 1].op = "createPost" /\ Succeeded(i + 1)
  /\ trail[i + 1].tid = ThreadMadeBy(i)
  /\ trail[i + 1].actor # trail[i].actor
ReplyDeleted(i) ==
  /\ ReplyByOther(i)
  /\ trail[i + 2].op = "deletePost" /\ Succeeded(i + 2)
  /\ trail[i + 2].pid = PostMadeBy(i + 1)

\* C19: from a category and users with all counters 0, handled one after the
\* other: a thread create by A gives threadCount 1 and A.postCount 1; a post
\* create by B under that thread gives replyCount 1, the category's postCount 1,
\* B.postCount 1 and lastReply B; the delete of that post gives replyCount 0,
\* postCount 0 and B.postCount 0 with threadCount and A.postCount still 1.
C19_Scenario ==
  \A i \in 1..Len(trail) :
    LET a == trail[i].actor
        c == trail[i].cid
    IN /\ (HasAfter(i) /\ FreshStart(i)) =>
            /\ After(i).categories[c].threadCount = 1
            /\ After(i).users[a].postCount = 1
       /\ (HasAfter(i + 1) /\ ReplyByOther(i)) =>
            /\ After(i + 1).threads[ThreadMadeBy(i)].replyCount = 1
            /\ After(i + 1).categories[c].postCount = 1
            /\ After(i + 1).users[trail[i + 1].actor].postCount = 1
            /\ After(i + 1).threads[ThreadMadeBy(i)].lastReply = trail[i + 1].actor
       /\ (HasAfter(i + 2) /\ ReplyDeleted(i)) =>
            /\ After(i + 2).threads[ThreadMadeBy(i)].replyCount = 0
            /\ After(i + 2).categories[c].postCount = 0
            /\ After(i + 2).users[trail[i + 1].actor].postCount = 0
            /\ After(i + 2).categories[c].threadCount = 1
            /\ After(i + 2).users[a].postCount = 1

C19_Witness ==
  /\ Quiescent /\ Len(trail) = 3
  /\ ReplyDeleted(1)
  /\ response.message = "Post deleted successfully"
  /\ threads[ThreadMadeBy(1)].lastReply = trail[2].actor

\* C20: a post soft-delete subtracts exactly 1 from replyCount of the post's
\* thread, from postCount of the post's author (also when another user, an
\* admin, deletes) and from postCount of the thread's category, and leaves the
\* thread's lastReply as it was.
C20_PostDeleteDecrementsOnce ==
  \A i \in 1..Len(trail) :
    (HasAfter(i) /\ trail[i].op = "deletePost" /\ Succeeded(i)) =>
      LET p == trail[i].pid
          t == trail[i].pre.posts[p].thread
          a == trail[i].pre.posts[p].author
          c == trail[i].pre.threads[t].category
      IN /\ After(i).threads[t].replyCount = trail[i].pre.threads[t].replyCount - 1
         /\ After(i).users[a].postCount = trail[i].pre.users[a].postCount - 1
         /\ \A u \in Users \ {a} :
              After(i).users[u].postCount = trail[i].pre.users[u].postCount
         /\ After(i).categories[c].postCount
              = trail[i].pre.categories[c].postCount - 1
         /\ After(i).threads[t].lastReply = trail[i].pre.threads[t].lastReply

C20_Witness ==
  /\ Quiescent /\ Len(trail) >= 1
  /\ trail[Len(trail)].op = "deletePost"
  /\ response.message = "Post deleted successfully"
  /\ trail[Len(trail)].actor # posts[trail[Len(trail)].pid].author
  /\ threads[posts[trail[Len(trail)].pid].thread].lastReply
       = posts[trail[Len(trail)].pid].author

\* ---- properties of the list routes
\* the pagination object a list route answered is the one the contract states
\* for its page, limit and total
PaginationCorrect ==
  /\ pageCase.out.present
  /\ pageCase.out.hasNext = (pageCase.page * pageCase.limit < pageCase.total)
  /\ pageCase.out.hasPrev = (pageCase.page > 1)
  /\ pageCase.out.totalPages * pageCase.limit >= pageCase.total
  /\ (pageCase.out.totalPages - 1) * pageCase.limit < pageCase.total

\* C16 as stated: on every list route, for page >= 1, limit >= 1 and a
\* collection of size n >= 0, the pagination answered has hasNext = (p*l < n),
\* hasPrev = (p > 1) and totalPages = ceil(n/l).
C16_PaginationOnEveryList == pageCase.applied => PaginationCorrect

\* C16 amended: on the five list routes that read page and limit (threads, posts
\* of a thread, a user's threads, a user's posts, user search) the pagination
\* answered has hasNext = (p*l < n), hasPrev = (p > 1), totalPages = ceil(n/l).
C16_PaginationOnPagedLists ==
  (pageCase.applied
     /\ pageCase.route \in {"threads", "posts", "userThreads", "userPosts", "users"})
    => PaginationCorrect

C16_Witness ==
  /\ pageCase.applied /\ pageCase.route = "users"
  /\ pageCase.page = 2 /\ pageCase.limit = 2 /\ pageCase.total = 5
  /\ pageCase.out.hasNext /\ pageCase.out.hasPrev /\ pageCase.out.totalPages = 3

\* the list response in listing is the response of the latest request
ListingFresh == Quiescent /\ listing.route # None /\ listing.seq = started

ItemActive(route, x) ==
  CASE route \in {"threads", "userThreads"} -> threads[x].isActive
    [] route \in {"posts", "userPosts"} -> posts[x].isActive
    [] route = "users" -> users[x].isActive
    [] OTHER -> categories[x].isActive

\* the documents of the list itself are active
ListedItemsActive ==
  ListingFresh =>
    \A i \in 1..Len(listing.items) : ItemActive(listing.route, listing.items[i])

\* C18: no list response holds an entity whose isActive is false, neither as a
\* document of the list nor as a document resolved inside one, after any
\* requests handled one after the other.
C18_ListsReturnActiveOnly ==
  ListingFresh =>
    /\ \A i \in 1..Len(listing.items) : ItemActive(listing.route, listing.items[i])
    /\ \A u \in listing.populated.users : users[u].isActive
    /\ \A c \in listing.populated.categories : categories[c].isActive
    /\ \A t \in listing.populated.threads : threads[t].isActive
    /\ \A p \in listing.populated.posts : posts[p].isActive

\* ---- properties of the detail read
\* C21: views of a thread never decreases and equals the number of detail reads
\* of it answered 200, in every state of any interleaving of detail reads,
\* like-toggles, edits and post creates on the thread (views starts at 0).
C21_ViewsCountReads ==
  [][\A t \in ThreadIds :
       /\ threads'[t].views >= threads[t].views
       /\ threads'[t].views = reads'[t]]_vars

C21_Witness ==
  \E r \in ReqIds :
    /\ reqs[r].pc \in {"lt_save", "ut_save", "cp_updateThread"}
    /\ threads[reqs[r].tid].views = 2

\* ---- like-toggles handled concurrently
ArriveLikes(r) ==
  \/ \E actor \in Users, t \in ThreadInputs : LikeThread_Find(r, actor, t)
  \/ \E actor \in Users, p \in PostInputs : LikePost_Find(r, actor, p)

ResumeLikes(r) == LikeThread_Save(r) \/ LikePost_Save(r)

NextLikes ==
  /\ \E r \in ReqIds : (started < MaxLikeOps /\ ArriveLikes(r)) \/ ResumeLikes(r)
  /\ UNCHANGED <<trail, listing, pageCase>>
SpecLikes == Init /\ [][NextLikes]_vars

\* the step ends the save of a toggle by request r, whose user's membership in
\* the stored likes is the one the handler read
ToggleEnds(r, pc, likes) ==
  /\ reqs[r].pc = pc
  /\ reqs'[r].pc # pc
  /\ HasLike(likes, reqs[r].actor) = HasLike(reqs[r].seenLikes, reqs[r].actor)

\* from likes to after, user u's membership is flipped and no other changes
FlipsOnly(likes, after, u) ==
  /\ HasLike(after, u) # HasLike(likes, u)
  /\ \A w \in Users \ {u} : HasLike(after, w) = HasLike(likes, w)

\* C24: like-toggles of different users on one thread or post all take effect,
\* whatever their interleaving: the save of a user's toggle flips that user's
\* membership in the stored likes and leaves every other user's membership as
\* stored, also when one toggle is an unlike and the other a like.
C24_ConcurrentTogglesBothApply ==
  [][\A r \in ReqIds :
       /\ ToggleEnds(r, "lt_save", threads[reqs[r].tid].likes) =>
            FlipsOnly(threads[reqs[r].tid].likes, threads'[reqs[r].tid].likes,
                      reqs[r].actor)
       /\ ToggleEnds(r, "lp_save", posts[reqs[r].pid].likes) =>
            FlipsOnly(posts[reqs[r].pid].likes, posts'[reqs[r].pid].likes,
                      reqs[r].actor)]_vars

\* ---- properties of interleaved edits, replies and deletes
\* the step stores an edit of post p: a handler leaves its save of the edit
EditStored(p) ==
  \E r \in ReqIds :
    reqs[r].pc = "up_save" /\ reqs[r].pid = p /\ reqs'[r].pc = "up_populate"

\* seq continues prefix
Extends(seq, prefix) ==
  Len(seq) >= Len(prefix) /\ SubSeq(seq, 1, Len(prefix)) = prefix

\* C22: editHistory of a post never shrinks or reorders, and every edit that
\* replaces the content appends the content it replaces, so that editHistory
\* followed by the current content is the sequence of contents the post held,
\* for edits handled one after the other or interleaved.
C22_EditHistoryComplete ==
  [][\A p \in PostIds :
       (posts[p].exists /\ posts'[p].exists) =>
         /\ Extends(posts'[p].editHistory, posts[p].editHistory)
         /\ EditStored(p) =>
              posts'[p].editHistory = Append(posts[p].editHistory, posts[p].content)]_vars

\* the step inserts post p
Inserted(p) == ~posts[p].exists /\ posts'[p].exists

\* C23: a post is inserted with a parentPost only if that parent is, at the
\* insert, an active post of the same thread; and a post create that finds its
\* parent missing, inactive or in another thread ends at once and leaves the
\* store unchanged.
C23_ParentActiveAtCreate ==
  [][/\ \A p \in PostIds :
          (Inserted(p) /\ posts'[p].parentPost # NoPost) =>
            /\ posts[posts'[p].parentPost].exists
            /\ posts[posts'[p].parentPost].isActive
            /\ posts[posts'[p].parentPost].thread = posts'[p].thread
     /\ \A r \in ReqIds :
          (reqs[r].pc = "cp_findParent" /\ reqs'[r].pc # "cp_findParent"
             /\ ~(/\ posts[reqs[r].parent].exists
                  /\ posts[reqs[r].parent].isActive
                  /\ posts[reqs[r].parent].thread = reqs[r].tid)) =>
            /\ reqs'[r].pc = "idle"
            /\ UNCHANGED store]_vars

\* C25: replyCount of every thread, threadCount and postCount of every category
\* and postCount of every user are >= 0 in every reachable state, requests
\* interleaving freely.
C25_CountersNonNegative ==
  /\ \A t \in ThreadIds : threads[t].replyCount >= 0
  /\ \A c \in CategoryIds : categories[c].threadCount >= 0 /\ categories[c].postCount >= 0
  /\ \A u \in Accounts : users[u].postCount >= 0

\* C26: no post is inserted under a thread that is, at the insert, soft-deleted
\* or locked, whatever the interleaving of the post create with a thread delete.
C26_NoPostUnderDeletedThread ==
  [][\A p \in PostIds :
       Inserted(p) =>
         /\ threads[posts'[p].thread].isActive
         /\ ~threads[posts'[p].thread].isLocked]_vars

====
